---- MODULE Spec2Model ----
(***************************************************************************)
(* tcbon: "there can be only one".  A Process object per OS process, all   *)
(* declaring the same identity (name / app_dir), coordinate through a lock *)
(* file <app_dir>/.pid and a small HTTP server (src/tcbon.py).             *)
(*                                                                         *)
(* Spec          the lifecycle: start / stop / get / send of several       *)
(*               invocations, their server threads and the lock file.      *)
(* SpecDispatch  one serving instance whose handler registry changes:      *)
(*               POST /event, receive_event and _handle_event.             *)
(***************************************************************************)
EXTENDS Integers, Sequences, FiniteSets, TLC

\* ------------------------------------------------------------------ bounds
NumProcs == 2        \* concurrent invocations of the same identity
NumEPorts == 2       \* ephemeral ports the OS hands out
MaxCount == 4        \* cap of the application's counter
MaxCalls == 3        \* API calls (start, stop, get, send) made in a run

Procs == 1..NumProcs
EPorts == 1..NumEPorts

\* ------------------------------------------------------- program constants
FixedPort == 9876            \* address='127.0.0.1:9876'
DefaultIncrement == 1        \* json.get('value', 1)

Ports == EPorts \cup {FixedPort}

\* ------------------------------------------------------------------ values
\* Python values that the code mixes: None, an int, str(n), an address
\* string, each possibly with a trailing newline (a line of readlines()).
NoneV == [k |-> "none", v |-> 0, nl |-> FALSE]
IntV(n) == [k |-> "int", v |-> n, nl |-> FALSE]
\* str(n): the decimal text of n
StrV(n) == [k |-> "str", v |-> n, nl |-> FALSE]
\* 'http://127.0.0.1:' + str(port)
Url(port) == [k |-> "url", v |-> port, nl |-> FALSE]
\* s + '\n'
WithNl(s) == [s EXCEPT !.nl = TRUE]
\* __init__: 'http://' + address.replace('http://', '') for '127.0.0.1:<port>'
InitAddress(port) == Url(port)
\* str(x) of an int or of a string
PyStr(x) == IF x.k = "int" THEN StrV(x.v) ELSE x

\* os.getpid() of the OS process that holds Process object p
OsPid(p) == p
\* the pid of an instance that crashed before this run
CrashedPid == NumProcs + 1

EmptyMap == [x \in {} |-> TRUE]
NoResp == [none |-> TRUE]

\* ------------------------------------------------------------------- state
VARIABLES
    platform,        \* sys.platform: "win32" or "posix"
    lockfile,        \* <app_dir>/.pid: NoFile or the sequence of its lines
    pc,              \* pc[p]: where p's main thread is inside start()/stop()
    pid,             \* self.pid
    address,         \* self.address
    wsgi_running,    \* self.wsgi_running
    wsgi_thread,     \* self.wsgi_thread is not None
    srv,             \* state of p's server thread
    srvPort,         \* port p's server thread was started on
    hooks,           \* signal handlers and atexit hook installed by p
    event_handlers,  \* self.event_handlers: event name -> handler
    counter,         \* the application's counter (handler state)
    response,        \* local variable `response` of a stop() in progress
    fx,              \* fx[p]: effects of p's call in progress, in order
    last,            \* the call that completed last
    calls,           \* number of API calls made so far
    rf,              \* rf[p]: where p's program is inside run_forever()
    rst              \* rst[q]: the /restart request server q is handling

vars == <<platform, lockfile, pc, pid, address, wsgi_running, wsgi_thread,
          srv, srvPort, hooks, event_handlers, counter, response, fx, last,
          calls, rf, rst>>

\* no /restart request being handled
NoRestart == [h |-> "none", from |-> 0]

\* the local `response` of stop() before anything was assigned to it
Unbound == [unbound |-> TRUE]

\* ------------------------------------------------------------ the lock file
NoFile == [exists |-> FALSE, lines |-> <<>>]
FileOf(lines) == [exists |-> TRUE, lines |-> lines]

\* f.write(str(pid) + '\n' + self.address), as readlines() will split it
PidFileText(p_pid, p_address) == <<WithNl(PyStr(p_pid)), p_address>>

\* _read_pid_file: `pid, address = f.readlines()`; the unpacking raises
\* ValueError unless the file has exactly two lines.  The lines are
\* returned as read: the first keeps its trailing newline.
ReadPidFile(file) ==
    IF Len(file.lines) = 2
    THEN [ok |-> TRUE, pid |-> file.lines[1], address |-> file.lines[2]]
    ELSE [ok |-> FALSE, pid |-> NoneV, address |-> NoneV]

\* a lock file left by an instance that crashed, and a one-line file
StaleFile == FileOf(PidFileText(IntV(CrashedPid), Url(1)))
CorruptFile == FileOf(<<Url(1)>>)

\* ------------------------------------------------------- event dispatching
Name == "demo"
AppDir == "/data/demo"

Handlers == {"increment", "boom", "empty", "flag"}
EventNames == {"increment", "boom"}

\* payload.get("value", 1)
GetValue(event) ==
    IF "value" \in DOMAIN event THEN event.value ELSE DefaultIncrement

\* What calling handler h with the event does: whether it raises, what it
\* returns and the counter it leaves.
CallHandler(h, event, c) ==
    CASE h = "increment" ->
           [raised |-> FALSE, ret |-> [value |-> c + GetValue(event)],
            counter |-> c + GetValue(event)]
      [] h = "empty" ->
           [raised |-> FALSE, ret |-> EmptyMap, counter |-> c]
      [] h = "flag" ->
           [raised |-> FALSE, ret |-> [success |-> TRUE], counter |-> c]
      [] OTHER ->
           [raised |-> TRUE, ret |-> EmptyMap, counter |-> c]

\* traceback.format_exc() for the exception raised inside the try block
Traceback(what) == <<"Traceback (most recent call last):", what>>

\* dict(success=True, **payload): a payload that has the key "success"
\* makes dict() raise TypeError (multiple values for a keyword argument).
MergeSuccess(payload) ==
    IF "success" \in DOMAIN payload
    THEN [raised |-> TRUE, value |-> EmptyMap]
    ELSE [raised |-> FALSE, value |-> [success |-> TRUE] @@ payload]

\* _handle_event whose except branch reports success
HandleEventHidesFailure(handlers, event, c) ==
    IF event.name \in DOMAIN handlers
    THEN LET h == handlers[event.name]
             r == CallHandler(h, event, c)
             m == MergeSuccess(r.ret)
         IN  IF r.raised \/ m.raised
             THEN [resp |-> [success |-> TRUE,
                            message |-> Traceback("Exception in handler")],
                   counter |-> r.counter, invoked |-> <<h>>]
             ELSE [resp |-> m.value, counter |-> r.counter, invoked |-> <<h>>]
    ELSE [resp |-> [success |-> TRUE,
                    message |-> <<"Event received. no handler found for ",
                                  event.name>>],
          counter |-> c, invoked |-> <<>>]

\* _handle_event that treats an event without a handler as a failure
HandleEventRejectsUnknown(handlers, event, c) ==
    IF event.name \in DOMAIN handlers
    THEN LET h == handlers[event.name]
             r == CallHandler(h, event, c)
             m == MergeSuccess(r.ret)
         IN  IF r.raised
             THEN [resp |-> [success |-> FALSE,
                            message |-> Traceback("Exception in handler")],
                   counter |-> r.counter, invoked |-> <<h>>]
             ELSE IF m.raised
             THEN [resp |-> [success |-> FALSE,
                            message |-> Traceback("TypeError in dict()")],
                   counter |-> r.counter, invoked |-> <<h>>]
             ELSE [resp |-> m.value, counter |-> r.counter, invoked |-> <<h>>]
    ELSE [resp |-> [success |-> FALSE, message |-> <<>>],
          counter |-> c, invoked |-> <<>>]

\* Process._handle_event
HandleEvent(handlers, event, c) ==
    IF event.name \in DOMAIN handlers
    THEN LET h == handlers[event.name]
             r == CallHandler(h, event, c)
             m == MergeSuccess(r.ret)
         IN  IF r.raised
             THEN [resp |-> [success |-> FALSE,
                            message |-> Traceback("Exception in handler")],
                   counter |-> r.counter, invoked |-> <<h>>]
             ELSE IF m.raised
             THEN [resp |-> [success |-> FALSE,
                            message |-> Traceback("TypeError in dict()")],
                   counter |-> r.counter, invoked |-> <<h>>]
             ELSE [resp |-> m.value, counter |-> r.counter, invoked |-> <<h>>]
    ELSE [resp |-> [success |-> TRUE,
                    message |-> <<"Event received. no handler found for ",
                                  event.name>>],
          counter |-> c, invoked |-> <<>>]

\* receive_event that dispatches event.get('name') without the check
ReceiveEventUnchecked(handlers, body, c) ==
    HandleEvent(handlers, IF "name" \in DOMAIN body THEN body
                          ELSE [name |-> "None"] @@ body, c)

\* route /event: receive_event
ReceiveEvent(handlers, body, c) ==
    IF "name" \notin DOMAIN body
    THEN [resp |-> [success |-> FALSE,
                    message |-> <<"Event missing required field \"name\".">>],
          counter |-> c, invoked |-> <<>>]
    ELSE HandleEvent(handlers, body, c)

\* ------------------------------------------------------ control-plane server
\* the servers that accept connections on a port
ServerOn(port) == {q \in Procs : srv[q] = "serving" /\ srvPort[q] = port}

\* the servers a request to the given address string reaches
Answering(addr) == IF addr.k = "url" /\ ~addr.nl THEN ServerOn(addr.v) ELSE {}

\* route /: index (the key is spelled 'succes' in the source)
Index(q) ==
    [succes |-> TRUE, name |-> Name, pid |-> PyStr(IntV(OsPid(q))),
     app_dir |-> AppDir, address |-> address[q]]

\* handle_error: a route the server does not have
NotFound == [success |-> FALSE, message |-> <<"404 Not Found">>]

\* a server whose /event route was not registered for POST
PostWithoutEventRoute(q, route, body) ==
    CASE route = "stop" ->
           [resp |-> [success |-> TRUE, message |-> <<"Shutting down...">>],
            counter |-> counter[q], invoked |-> <<>>, shutdown |-> TRUE]
      [] OTHER ->
           [resp |-> NotFound, counter |-> counter[q], invoked |-> <<>>,
            shutdown |-> FALSE]

\* What server q does with POST <route> and the JSON body: its response,
\* the counter its handlers leave, the handlers it invoked, and whether
\* werkzeug.server.shutdown was called.
Post(q, route, body) ==
    CASE route = "event" ->
           ReceiveEvent(event_handlers[q], body, counter[q])
             @@ [shutdown |-> FALSE]
      [] route = "stop" ->
           [resp |-> [success |-> TRUE, message |-> <<"Shutting down...">>],
            counter |-> counter[q], invoked |-> <<>>, shutdown |-> TRUE]
      [] route = "restart" ->
           [resp |-> [success |-> TRUE, message |-> <<"Restarting...">>],
            counter |-> counter[q], invoked |-> <<>>, shutdown |-> TRUE]
      [] OTHER ->
           [resp |-> NotFound, counter |-> counter[q], invoked |-> <<>>,
            shutdown |-> FALSE]

\* ----------------------------------------------------------- liveness check
\* Get-Process -Id <pid> finds a process / os.kill(pid, 0) does not raise
OsProcessExists(n) == \E q \in Procs : OsPid(q) = n

\* Process.running from line 263 on: the lock file, the recorded pid, the
\* recorded address.  res is the value returned, or the exception raised.
RunningFromLock(p) ==
    LET rd == ReadPidFile(lockfile)
        same == [pid |-> pid[p], address |-> address[p]]
        read == [pid |-> rd.pid, address |-> rd.address]
    IN
    IF ~lockfile.exists THEN [res |-> "false"] @@ same
    ELSE IF ~rd.ok THEN [res |-> "false"] @@ same
    ELSE IF platform = "win32" /\ ~OsProcessExists(rd.pid.v)
         THEN [res |-> "false"] @@ read
    ELSE IF platform # "win32" /\ rd.pid.k # "int"
         THEN [res |-> "TypeError"] @@ read
    ELSE IF platform # "win32" /\ ~OsProcessExists(rd.pid.v)
         THEN [res |-> "false"] @@ read
    ELSE IF Answering(rd.address) = {}
         THEN [res |-> "ConnectionError"] @@ read
    ELSE [res |-> "true"] @@ read

\* Process.running: the value returned (or exception raised) and the pid and
\* address the check leaves in the object.
Running(p) ==
    IF wsgi_running[p]
    THEN [res |-> "true", pid |-> pid[p], address |-> address[p]]
    ELSE IF address[p] # NoneV /\ Answering(address[p]) # {}
    THEN LET json == Index(CHOOSE q \in Answering(address[p]) : TRUE)
         IN  [res |-> "true", pid |-> json.pid, address |-> json.address]
    ELSE RunningFromLock(p)

\* ------------------------------------------------------------- bookkeeping
\* the record of a call that returned or raised: its outcome ("ok" or the
\* exception), the response it returned, the handlers the server invoked
\* for it, and the effects it had, in order
Completed(p, op, route, body, outcome, resp, invoked, effects) ==
    [proc |-> p, op |-> op, route |-> route, body |-> body,
     outcome |-> outcome, resp |-> resp, invoked |-> invoked, fx |-> effects]

\* the wrong exception class raised when the check says no
IfNotRunningWrongClass(res, exc) == IF res = "false" THEN "ProcessExists" ELSE res

\* the exception a caller of `running` sees when the check does not say yes
IfNotRunning(res, exc) == IF res = "false" THEN exc ELSE res

\* the handlers every invocation registers at import, as examples/simple.py
Registry == ("increment" :> "increment") @@ ("boom" :> "boom")

\* ------------------------------------------------------------------ start()
\* start() with the liveness check made only after the hooks are installed
StartCheckLate(p) ==
    /\ pc[p] = "idle"
    /\ LET r == Running(p) IN
       /\ pid' = [pid EXCEPT ![p] = r.pid]
       /\ address' = [address EXCEPT ![p] = r.address]
       /\ hooks' = [hooks EXCEPT ![p] = TRUE]
       /\ IF r.res = "false"
          THEN /\ pc' = [pc EXCEPT ![p] = "start2"]
               /\ last' = last
          ELSE /\ pc' = pc
               /\ last' = Completed(p, "start", "", EmptyMap,
                                    IF r.res = "true" THEN "ProcessExists" ELSE r.res,
                                    NoResp, <<>>, <<"hooks">>)
    /\ UNCHANGED <<platform, lockfile, wsgi_running, wsgi_thread, srv, srvPort,
                   event_handlers, counter, response, fx>>

\* `if self.running: raise ProcessExists`
StartCheck(p) ==
    /\ pc[p] = "idle"
    /\ LET r == Running(p) IN
       /\ pid' = [pid EXCEPT ![p] = r.pid]
       /\ address' = [address EXCEPT ![p] = r.address]
       /\ IF r.res = "false"
          THEN /\ pc' = [pc EXCEPT ![p] = "start2"]
               /\ last' = last
          ELSE /\ pc' = pc
               /\ last' = Completed(p, "start", "", EmptyMap,
                                    IF r.res = "true" THEN "ProcessExists" ELSE r.res,
                                    NoResp, <<>>, <<>>)
    /\ UNCHANGED <<platform, lockfile, wsgi_running, wsgi_thread, srv, srvPort,
                   hooks, event_handlers, counter, response, fx>>

\* pid, port, on_start, the server thread, the flag, the signal and exit hooks
StartServe(p) ==
    /\ pc[p] = "start2"
    /\ \E port \in Ports :
         /\ IF address[p] # NoneV
            THEN port = address[p].v
            ELSE port \in EPorts /\ ServerOn(port) = {}
         /\ address' = [address EXCEPT ![p] = Url(port)]
         /\ srvPort' = [srvPort EXCEPT ![p] = port]
    /\ pid' = [pid EXCEPT ![p] = IntV(OsPid(p))]
    /\ srv' = [srv EXCEPT ![p] = "starting"]
    /\ wsgi_thread' = [wsgi_thread EXCEPT ![p] = TRUE]
    /\ wsgi_running' = [wsgi_running EXCEPT ![p] = TRUE]
    /\ hooks' = [hooks EXCEPT ![p] = TRUE]
    /\ fx' = [fx EXCEPT ![p] = <<"on_start", "thread", "flag", "hooks">>]
    /\ pc' = [pc EXCEPT ![p] = "start3"]
    /\ UNCHANGED <<platform, lockfile, event_handlers, counter, response, last>>

\* _write_pid_file: open(self.pid_file, 'w') truncates the file
StartOpen(p) ==
    /\ pc[p] = "start3"
    /\ lockfile' = FileOf(<<>>)
    /\ fx' = [fx EXCEPT ![p] = Append(@, "open")]
    /\ pc' = [pc EXCEPT ![p] = "start4"]
    /\ UNCHANGED <<platform, pid, address, wsgi_running, wsgi_thread, srv,
                   srvPort, hooks, event_handlers, counter, response, last>>

\* _write_pid_file: the text reaches the file; start() returns
StartWrite(p) ==
    /\ pc[p] = "start4"
    /\ lockfile' = FileOf(PidFileText(pid[p], address[p]))
    /\ fx' = [fx EXCEPT ![p] = <<>>]
    /\ pc' = [pc EXCEPT ![p] = "idle"]
    /\ last' = Completed(p, "start", "", EmptyMap, "ok", NoResp, <<>>,
                         Append(fx[p], "write"))
    /\ UNCHANGED <<platform, pid, address, wsgi_running, wsgi_thread, srv,
                   srvPort, hooks, event_handlers, counter, response>>

\* the server thread: wsgi.run binds the port, or dies when it is taken
ServerBind(p) ==
    /\ srv[p] = "starting"
    /\ srv' = [srv EXCEPT ![p] =
                  IF ServerOn(srvPort[p]) = {} THEN "serving" ELSE "dead"]
    /\ UNCHANGED <<platform, lockfile, pc, pid, address, wsgi_running,
                   wsgi_thread, srvPort, hooks, event_handlers, counter,
                   response, fx, last>>

\* ------------------------------------------------------------------- stop()
\* `if not self.running: raise ProcessDoesNotExist`, then on_stop for the owner
StopCheck(p) ==
    /\ pc[p] = "idle"
    /\ LET r == Running(p) IN
       /\ pid' = [pid EXCEPT ![p] = r.pid]
       /\ address' = [address EXCEPT ![p] = r.address]
       /\ IF r.res = "true"
          THEN /\ pc' = [pc EXCEPT ![p] = "stop2"]
               /\ fx' = [fx EXCEPT ![p] =
                            IF wsgi_running[p] THEN <<"on_stop">> ELSE <<>>]
               /\ last' = last
          ELSE /\ pc' = pc
               /\ fx' = fx
               /\ last' = Completed(p, "stop", "", EmptyMap,
                                    IfNotRunning(r.res, "ProcessDoesNotExist"),
                                    NoResp, <<>>, <<>>)
    /\ UNCHANGED <<platform, lockfile, wsgi_running, wsgi_thread, srv, srvPort,
                   hooks, event_handlers, counter, response>>

\* `response = self.send('stop')`, requests.ConnectionError caught
StopSend(p) ==
    /\ pc[p] = "stop2"
    /\ LET r == Running(p)
           to == Answering(r.address)
       IN
       /\ pid' = [pid EXCEPT ![p] = r.pid]
       /\ address' = [address EXCEPT ![p] = r.address]
       /\ IF r.res # "true"
          THEN /\ pc' = [pc EXCEPT ![p] = "idle"]
               /\ fx' = [fx EXCEPT ![p] = <<>>]
               /\ last' = Completed(p, "stop", "", EmptyMap,
                                    IfNotRunning(r.res, "ProcessDoesNotExist"),
                                    NoResp, <<>>, fx[p])
               /\ UNCHANGED <<srv, response>>
          ELSE /\ pc' = [pc EXCEPT ![p] = "stop3"]
               /\ fx' = [fx EXCEPT ![p] = Append(@, "request")]
               /\ last' = last
               /\ IF to = {}
                  THEN UNCHANGED <<srv, response>>
                  ELSE LET q == CHOOSE x \in to : TRUE
                           post == Post(q, "stop", EmptyMap)
                       IN  /\ srv' = [srv EXCEPT ![q] = "dead"]
                           /\ response' = [response EXCEPT ![p] = post.resp]
    /\ UNCHANGED <<platform, lockfile, wsgi_running, wsgi_thread, srvPort,
                   hooks, event_handlers, counter>>

\* stop() that resets the server state without joining the server thread
StopJoinNoWait(p) ==
    /\ pc[p] = "stop3"
    /\ wsgi_running' = [wsgi_running EXCEPT ![p] = FALSE]
    /\ wsgi_thread' = [wsgi_thread EXCEPT ![p] = FALSE]
    /\ fx' = [fx EXCEPT ![p] = <<>>]
    /\ pc' = [pc EXCEPT ![p] = "idle"]
    /\ last' = IF response[p] = Unbound
               THEN Completed(p, "stop", "", EmptyMap, "UnboundLocalError",
                              NoResp, <<>>, fx[p])
               ELSE Completed(p, "stop", "", EmptyMap, "ok", response[p],
                              <<>>, fx[p])
    /\ response' = [response EXCEPT ![p] = Unbound]
    /\ UNCHANGED <<platform, lockfile, pid, address, srv, srvPort, hooks,
                   event_handlers, counter>>

\* wsgi_thread.join(), the reset of the server state, `return response`
StopJoin(p) ==
    /\ pc[p] = "stop3"
    /\ wsgi_thread[p] => srv[p] \notin {"starting", "serving"}
    /\ srv' = [srv EXCEPT ![p] = IF wsgi_thread[p] THEN "none" ELSE @]
    /\ wsgi_running' = [wsgi_running EXCEPT ![p] = FALSE]
    /\ wsgi_thread' = [wsgi_thread EXCEPT ![p] = FALSE]
    /\ fx' = [fx EXCEPT ![p] = <<>>]
    /\ pc' = [pc EXCEPT ![p] = "idle"]
    /\ LET effects == IF wsgi_thread[p] THEN Append(fx[p], "join") ELSE fx[p]
       IN  last' = IF response[p] = Unbound
                   THEN Completed(p, "stop", "", EmptyMap, "UnboundLocalError",
                                  NoResp, <<>>, effects)
                   ELSE Completed(p, "stop", "", EmptyMap, "ok", response[p],
                                  <<>>, effects)
    /\ response' = [response EXCEPT ![p] = Unbound]
    /\ UNCHANGED <<platform, lockfile, pid, address, srvPort, hooks,
                   event_handlers, counter>>

\* ------------------------------------------------------------ get() / send()
\* Process.get
Get(p, route) ==
    /\ pc[p] = "idle"
    /\ LET r == Running(p)
           to == Answering(r.address)
       IN
       /\ pid' = [pid EXCEPT ![p] = r.pid]
       /\ address' = [address EXCEPT ![p] = r.address]
       /\ last' =
            IF r.res # "true"
            THEN Completed(p, "get", route, EmptyMap,
                           IfNotRunning(r.res, "ProcessDoesNotExist"),
                           NoResp, <<>>, <<>>)
            ELSE IF to = {}
            THEN Completed(p, "get", route, EmptyMap, "ConnectionError",
                           NoResp, <<>>, <<"request">>)
            ELSE Completed(p, "get", route, EmptyMap, "ok",
                           IF route = "/"
                           THEN Index(CHOOSE x \in to : TRUE) ELSE NotFound,
                           <<>>, <<"request">>)
    /\ UNCHANGED <<platform, lockfile, pc, wsgi_running, wsgi_thread, srv,
                   srvPort, hooks, event_handlers, counter, response, fx>>

\* Process.send
Send(p, route, body) ==
    /\ pc[p] = "idle"
    /\ LET r == Running(p)
           to == Answering(r.address)
       IN
       /\ pid' = [pid EXCEPT ![p] = r.pid]
       /\ address' = [address EXCEPT ![p] = r.address]
       /\ IF r.res # "true"
          THEN /\ last' = Completed(p, "send", route, body,
                                    IfNotRunning(r.res, "ProcessDoesNotExist"),
                                    NoResp, <<>>, <<>>)
               /\ UNCHANGED <<srv, counter>>
          ELSE IF to = {}
          THEN /\ last' = Completed(p, "send", route, body, "ConnectionError",
                                    NoResp, <<>>, <<"request">>)
               /\ UNCHANGED <<srv, counter>>
          ELSE LET q == CHOOSE x \in to : TRUE
                   post == Post(q, route, body)
               IN  /\ post.counter <= MaxCount
                   /\ counter' = [counter EXCEPT ![q] = post.counter]
                   /\ srv' = [srv EXCEPT ![q] =
                                 IF post.shutdown THEN "dead" ELSE @]
                   /\ last' = Completed(p, "send", route, body, "ok",
                                        post.resp, post.invoked, <<"request">>)
    /\ UNCHANGED <<platform, lockfile, pc, wsgi_running, wsgi_thread, srvPort,
                   hooks, event_handlers, response, fx>>

\* ------------------------------------------------------------ specification
NoCall ==
    [proc |-> 0, op |-> "none", route |-> "", body |-> EmptyMap,
     outcome |-> "none", resp |-> NoResp, invoked |-> <<>>, fx |-> <<>>]

\* Process.__init__ in every invocation (the same program, so the same
\* arguments), and what is on disk before
Init ==
    /\ platform \in {"win32", "posix"}
    /\ lockfile \in {NoFile, StaleFile, CorruptFile}
    /\ \E a \in {NoneV, InitAddress(FixedPort)} : address = [p \in Procs |-> a]
    /\ pc = [p \in Procs |-> "idle"]
    /\ pid = [p \in Procs |-> NoneV]
    /\ wsgi_running = [p \in Procs |-> FALSE]
    /\ wsgi_thread = [p \in Procs |-> FALSE]
    /\ srv = [p \in Procs |-> "none"]
    /\ srvPort = [p \in Procs |-> 0]
    /\ hooks = [p \in Procs |-> FALSE]
    /\ event_handlers = [p \in Procs |-> Registry]
    /\ counter = [p \in Procs |-> 0]
    /\ response = [p \in Procs |-> Unbound]
    /\ fx = [p \in Procs |-> <<>>]
    /\ last = NoCall
    /\ calls = 0
    /\ rf = [p \in Procs |-> "none"]
    /\ rst = [p \in Procs |-> NoRestart]

\* an API call (start, stop, get, send) begins, within the budget of the run
Budget == calls < MaxCalls /\ calls' = calls + 1 /\ UNCHANGED <<rf, rst>>
\* a call in progress, or a server thread, takes its next step
Within == calls' = calls /\ UNCHANGED <<rf, rst>>

Next ==
    \E p \in Procs :
        \/ Budget /\ StartCheck(p)
        \/ Within /\ StartServe(p)
        \/ Within /\ StartOpen(p)
        \/ Within /\ StartWrite(p)
        \/ Within /\ ServerBind(p)
        \/ Budget /\ StopCheck(p)
        \/ Within /\ StopSend(p)
        \/ Within /\ StopJoin(p)
        \/ Budget /\ Get(p, "/")
        \/ Budget /\ Send(p, "event", [name |-> "boom"])
        \/ Budget /\ Send(p, "stop", EmptyMap)

Spec == Init /\ [][Next]_vars

\* ---------------------------------------------------- the event dispatcher
\* Process.register_event_handler
RegisterEventHandler(p, event, handler) ==
    /\ event_handlers' =
         [event_handlers EXCEPT ![p] =
            (event :> handler) @@ [e \in DOMAIN @ \ {event} |-> @[e]]]
    /\ UNCHANGED <<platform, lockfile, pc, pid, address, wsgi_running,
                   wsgi_thread, srv, srvPort, hooks, counter, response, fx,
                   last>>

\* Process.unregister_event_handler
UnregisterEventHandler(p, event) ==
    /\ event_handlers' =
         [event_handlers EXCEPT ![p] = [e \in DOMAIN @ \ {event} |-> @[e]]]
    /\ UNCHANGED <<platform, lockfile, pc, pid, address, wsgi_running,
                   wsgi_thread, srv, srvPort, hooks, counter, response, fx,
                   last>>

\* the instance that serves in SpecDispatch: the first invocation
Server == CHOOSE p \in Procs : \A q \in Procs : p <= q

\* Invocation 1 has started on the fixed address and serves; its registry
\* is still the empty one of __init__; the others have only been constructed.
InitDispatch ==
    /\ platform \in {"win32", "posix"}
    /\ lockfile = FileOf(PidFileText(IntV(OsPid(Server)), Url(FixedPort)))
    /\ address = [p \in Procs |-> InitAddress(FixedPort)]
    /\ pc = [p \in Procs |-> "idle"]
    /\ pid = [p \in Procs |-> IF p = Server THEN IntV(OsPid(p)) ELSE NoneV]
    /\ wsgi_running = [p \in Procs |-> p = Server]
    /\ wsgi_thread = [p \in Procs |-> p = Server]
    /\ srv = [p \in Procs |-> IF p = Server THEN "serving" ELSE "none"]
    /\ srvPort = [p \in Procs |-> IF p = Server THEN FixedPort ELSE 0]
    /\ hooks = [p \in Procs |-> p = Server]
    /\ event_handlers = [p \in Procs |-> EmptyMap]
    /\ counter = [p \in Procs |-> 0]
    /\ response = [p \in Procs |-> Unbound]
    /\ fx = [p \in Procs |-> <<>>]
    /\ last = Completed(Server, "start", "", EmptyMap, "ok", NoResp, <<>>,
                        <<"on_start", "thread", "flag", "hooks", "open", "write">>)
    /\ calls = 1
    /\ rf = [p \in Procs |-> "none"]
    /\ rst = [p \in Procs |-> NoRestart]

IncBody == [name |-> "increment", value |-> 2]

NextDispatch ==
    \/ \E e \in EventNames, h \in Handlers :
         Within /\ RegisterEventHandler(Server, e, h)
    \/ \E e \in EventNames : Within /\ UnregisterEventHandler(Server, e)
    \/ \E p \in Procs :
        \/ Within /\ Send(p, "event", IncBody)
        \/ Within /\ Send(p, "event", [name |-> "boom"])
        \/ Within /\ Send(p, "event", [name |-> "Null"])
        \/ Within /\ Send(p, "event", [value |-> 2])
        \/ Within /\ Send(p, "event", EmptyMap)
        \/ Within /\ Send(p, "increment", [value |-> 2])
        \/ Within /\ Send(p, "stop", EmptyMap)
        \/ Within /\ Get(p, "/")

SpecDispatch == InitDispatch /\ [][NextDispatch]_vars

\* ------------------------------------------- run_forever() and /restart
\* what calling the previous SIGINT handler without arguments raises:
\* KeyboardInterrupt where default_int_handler takes any arguments,
\* TypeError where it requires (signum, frame)
OldHandlerRaises == {"KeyboardInterrupt", "TypeError"}

\* the stop() calls run_forever makes: from on_signal, from the except branch
InStop == {"sig", "kbi"}

\* no program image has been replaced yet; the model follows the system up
\* to the first os.execl
NoneReplaced == \A q \in Procs : rf[q] # "replaced"

\* run_forever: self.start() begins; ProcessExists sends the program to its
\* except branch (examples/simple.py), any other exception ends it
RunForeverStart(p) ==
    /\ NoneReplaced
    /\ rf[p] = "init"
    /\ StartCheck(p)
    /\ rf' = [rf EXCEPT ![p] =
                IF pc'[p] = "start2" THEN "start"
                ELSE IF last'.outcome = "ProcessExists" THEN "client"
                ELSE "raised"]
    /\ UNCHANGED <<calls, rst>>

\* run_forever: the rest of self.start(), then the `while True` loop sleeps
RunForeverServe(p) ==
    /\ NoneReplaced
    /\ rf[p] = "start"
    /\ \/ StartServe(p) /\ rf' = rf
       \/ StartOpen(p) /\ rf' = rf
       \/ StartWrite(p) /\ rf' = [rf EXCEPT ![p] = "sleep"]
    /\ UNCHANGED <<calls, rst>>

\* the server thread of a program in run_forever
RunForeverBind(p) ==
    /\ NoneReplaced
    /\ ServerBind(p)
    /\ UNCHANGED <<calls, rf, rst>>

\* SIGINT arrives during time.sleep: on_signal runs in the main thread and
\* calls self.stop(); an exception of stop() leaves run_forever
Interrupt(p) ==
    /\ NoneReplaced
    /\ rf[p] = "sleep"
    /\ hooks[p]
    /\ StopCheck(p)
    /\ rf' = [rf EXCEPT ![p] = IF pc'[p] = "stop2" THEN "sig" ELSE "raised"]
    /\ UNCHANGED <<calls, rst>>

\* where run_forever is once a step of its stop() was taken: still inside
\* stop(); left by the exception of stop(); after on_signal's stop(), left by
\* what old_handler() raises unless that is KeyboardInterrupt; after the
\* except branch's stop(), back in the loop
AfterStopStep(p, raises) ==
    IF pc'[p] # "idle" THEN rf[p]
    ELSE IF last'.outcome # "ok" THEN "raised"
    ELSE IF rf[p] = "sig"
         THEN IF raises = "KeyboardInterrupt" THEN "caught" ELSE "raised"
    ELSE "sleep"

\* the stop() of on_signal or of the except branch goes on
RunForeverStop(p) ==
    /\ NoneReplaced
    /\ rf[p] \in InStop
    /\ StopSend(p) \/ StopJoin(p)
    /\ \E raises \in OldHandlerRaises :
         rf' = [rf EXCEPT ![p] = AfterStopStep(p, raises)]
    /\ UNCHANGED <<calls, rst>>

\* `except KeyboardInterrupt: self.stop()`
CaughtStop(p) ==
    /\ NoneReplaced
    /\ rf[p] = "caught"
    /\ StopCheck(p)
    /\ rf' = [rf EXCEPT ![p] = IF pc'[p] = "stop2" THEN "kbi" ELSE "raised"]
    /\ UNCHANGED <<calls, rst>>

\* examples/simple.py: `except ProcessExists: send('event', {'name': 'Null'})`
ClientSend(p) ==
    /\ NoneReplaced
    /\ rf[p] = "client"
    /\ Send(p, "event", [name |-> "Null"])
    /\ rf' = [rf EXCEPT ![p] = "done"]
    /\ UNCHANGED <<calls, rst>>

\* a client's send('restart'): the liveness check, then the POST; server q's
\* handler starts the do_restart thread and p waits for the response
RestartRequest(p) ==
    /\ NoneReplaced
    /\ rf[p] = "client"
    /\ pc[p] = "idle"
    /\ LET r == Running(p)
           to == Answering(r.address)
       IN
       /\ pid' = [pid EXCEPT ![p] = r.pid]
       /\ address' = [address EXCEPT ![p] = r.address]
       /\ IF r.res # "true"
          THEN /\ last' = Completed(p, "send", "restart", EmptyMap,
                                    IfNotRunning(r.res, "ProcessDoesNotExist"),
                                    NoResp, <<>>, <<>>)
               /\ rf' = [rf EXCEPT ![p] = "done"]
               /\ UNCHANGED <<pc, rst>>
          ELSE IF to = {}
          THEN /\ last' = Completed(p, "send", "restart", EmptyMap,
                                    "ConnectionError", NoResp, <<>>,
                                    <<"request">>)
               /\ rf' = [rf EXCEPT ![p] = "done"]
               /\ UNCHANGED <<pc, rst>>
          ELSE LET q == CHOOSE x \in to : TRUE IN
               /\ rst[q] = NoRestart
               /\ rst' = [rst EXCEPT ![q] = [h |-> "spawned", from |-> p]]
               /\ pc' = [pc EXCEPT ![p] = "wait"]
               /\ UNCHANGED <<last, rf>>
    /\ UNCHANGED <<platform, lockfile, wsgi_running, wsgi_thread, srv,
                   srvPort, hooks, event_handlers, counter, response, fx,
                   calls>>

\* restart: server_shutdown() -- the server accepts no further request
RestartShutdown(q) ==
    /\ NoneReplaced
    /\ rst[q].h = "spawned"
    /\ rst' = [rst EXCEPT ![q].h = "shutdown"]
    /\ srv' = [srv EXCEPT ![q] = "dead"]
    /\ UNCHANGED <<platform, lockfile, pc, pid, address, wsgi_running,
                   wsgi_thread, srvPort, hooks, event_handlers, counter,
                   response, fx, last, calls, rf>>

\* restart: `return jsonify(...)` -- the waiting client gets the response
RestartRespond(q) ==
    /\ NoneReplaced
    /\ rst[q].h = "shutdown"
    /\ rst' = [rst EXCEPT ![q].h = "responded"]
    /\ last' = Completed(rst[q].from, "send", "restart", EmptyMap, "ok",
                         Post(q, "restart", EmptyMap).resp, <<>>,
                         <<"request">>)
    /\ pc' = [pc EXCEPT ![rst[q].from] = "idle"]
    /\ rf' = [rf EXCEPT ![rst[q].from] = "done"]
    /\ UNCHANGED <<platform, lockfile, pid, address, wsgi_running,
                   wsgi_thread, srv, srvPort, hooks, event_handlers, counter,
                   response, fx, calls>>

\* do_restart: os.execl replaces the program image of q's process; every
\* thread of the old image is gone, and a client still waiting for the
\* response loses its connection
RestartExec(q) ==
    /\ NoneReplaced
    /\ rst[q].h # "none"
    /\ rf' = [x \in Procs |->
                IF x = q THEN "replaced"
                ELSE IF x = rst[q].from /\ rst[q].h # "responded" THEN "done"
                ELSE rf[x]]
    /\ srv' = [srv EXCEPT ![q] = "none"]
    /\ IF rst[q].h # "responded"
       THEN /\ last' = Completed(rst[q].from, "send", "restart", EmptyMap,
                                 "ConnectionError", NoResp, <<>>,
                                 <<"request">>)
            /\ pc' = [pc EXCEPT ![rst[q].from] = "idle"]
       ELSE UNCHANGED <<last, pc>>
    /\ UNCHANGED <<platform, lockfile, pid, address, wsgi_running,
                   wsgi_thread, srvPort, hooks, event_handlers, counter,
                   response, fx, calls, rst>>

\* every invocation runs a program that calls run_forever()
InitForever ==
    /\ platform \in {"win32", "posix"}
    /\ lockfile \in {NoFile, StaleFile, CorruptFile}
    /\ \E a \in {NoneV, InitAddress(FixedPort)} : address = [p \in Procs |-> a]
    /\ pc = [p \in Procs |-> "idle"]
    /\ pid = [p \in Procs |-> NoneV]
    /\ wsgi_running = [p \in Procs |-> FALSE]
    /\ wsgi_thread = [p \in Procs |-> FALSE]
    /\ srv = [p \in Procs |-> "none"]
    /\ srvPort = [p \in Procs |-> 0]
    /\ hooks = [p \in Procs |-> FALSE]
    /\ event_handlers = [p \in Procs |-> Registry]
    /\ counter = [p \in Procs |-> 0]
    /\ response = [p \in Procs |-> Unbound]
    /\ fx = [p \in Procs |-> <<>>]
    /\ last = NoCall
    /\ calls = 0
    /\ rf = [p \in Procs |-> "init"]
    /\ rst = [p \in Procs |-> NoRestart]

NextForever ==
    \E p \in Procs :
        \/ RunForeverStart(p)
        \/ RunForeverServe(p)
        \/ RunForeverBind(p)
        \/ Interrupt(p)
        \/ RunForeverStop(p)
        \/ CaughtStop(p)
        \/ ClientSend(p)
        \/ RestartRequest(p)
        \/ RestartShutdown(p)
        \/ RestartRespond(p)
        \/ RestartExec(p)

SpecForever == InitForever /\ [][NextForever]_vars

\* ================================================================== claims
\* the starts that returned normally, counted while nothing else was called
Started == {p \in Procs : pc[p] = "idle" /\ wsgi_running[p]}

\* C1: among the invocations of one identity that call start(), with no
\* other call made, at most one start() completes without raising.
C1_AtMostOneStartSucceeds ==
    calls = Cardinality(Started) => Cardinality(Started) <= 1

\* C2: a start() whose liveness check reports true raises ProcessExists and
\* has no lifecycle effect: no server thread, no on_start, no signal or exit
\* hook, no write of the lock file.
C2_StartRaisesProcessExists ==
    [][\A p \in Procs :
         (Running(p).res = "true" /\ StartCheck(p)) =>
            /\ last'.proc = p /\ last'.op = "start"
            /\ last'.outcome = "ProcessExists"
            /\ last'.fx = <<>>
            /\ UNCHANGED <<lockfile, pc, wsgi_running, wsgi_thread, srv,
                           srvPort, hooks, fx>>]_vars

\* a start() raised ProcessExists because another invocation's server answered
C2_Witness ==
    /\ last.op = "start" /\ last.outcome = "ProcessExists"
    /\ ~wsgi_running[last.proc]
    /\ \E q \in Procs \ {last.proc} : srv[q] = "serving"

\* no instance of the identity was ever started: no lock record, no call in
\* progress, no hooks installed by any start()
NeverStarted ==
    /\ ~lockfile.exists
    /\ \A q \in Procs : pc[q] = "idle" /\ ~hooks[q]

\* p makes the liveness check of a stop(), get() or send()
ChecksLiveness(p) ==
    \/ StopCheck(p)
    \/ StopSend(p)
    \/ Get(p, "/")
    \/ Send(p, "event", [name |-> "boom"])
    \/ Send(p, "stop", EmptyMap)

\* C3: stop() on a never-started instance raises ProcessDoesNotExist; stop(),
\* get() and send() raise it whenever the liveness check reports false, with
\* no route request issued, no on_stop, wsgi_running and wsgi_thread as before.
C3_NotRunningRaises ==
    [][\A p \in Procs :
         /\ (NeverStarted /\ StopCheck(p)) =>
               last'.op = "stop" /\ last'.outcome = "ProcessDoesNotExist"
         /\ (Running(p).res = "false" /\ ChecksLiveness(p)) =>
               /\ last'.proc = p
               /\ last'.outcome = "ProcessDoesNotExist"
               /\ last'.resp = NoResp
               /\ last'.fx = <<>>
               /\ pc'[p] = "idle"
               /\ UNCHANGED <<wsgi_running, wsgi_thread, srv, counter,
                              lockfile, hooks>>]_vars

\* a stop() on a never-started instance raised ProcessDoesNotExist
C3_Witness ==
    /\ last.op = "stop" /\ last.outcome = "ProcessDoesNotExist"
    /\ NeverStarted

\* no call in progress and no server thread alive
Quiet == \A q \in Procs : pc[q] = "idle" /\ srv[q] \notin {"starting", "serving"}

\* C4: after a stop() that succeeded, with nothing else running, the next
\* start() of the identity passes its liveness check and goes on to serve.
C4_StartAfterStop ==
    [][\A p \in Procs :
         (last.op = "stop" /\ last.outcome = "ok" /\ Quiet /\ StartCheck(p)) =>
            pc'[p] = "start2"]_vars

\* C5: when start() returns, the lock file exists, has exactly two lines, and
\* _read_pid_file yields the pid and address the instance reports on GET /.
C5_LockFileMatchesIndex ==
    [][\A p \in Procs :
         StartWrite(p) =>
            /\ lockfile'.exists
            /\ Len(lockfile'.lines) = 2
            /\ ReadPidFile(lockfile').pid = Index(p).pid
            /\ ReadPidFile(lockfile').address = Index(p).address]_vars

\* ------------------------------------------------- claims on the dispatcher
\* p's liveness check says yes and its request reaches server q
Reaches(p, q) ==
    Running(p).res = "true" /\ q \in Answering(Running(p).address)

\* the step is a send() of p that reaches server q
SendsTo(p, q) ==
    /\ srv[q] = "serving"
    /\ last'.op = "send" /\ last'.proc = p
    /\ Reaches(p, q)

\* the step is a send() of p to /event, with the body it records, that
\* reaches server q
SendsEventTo(p, q) ==
    /\ SendsTo(p, q)
    /\ last'.route = "event"
    /\ Send(p, "event", last'.body)

\* the events the invocations send to /event
EventBodies ==
    <<IncBody, [name |-> "boom"], [name |-> "Null"], [value |-> 2], EmptyMap>>

\* server q has a handler for the event
Handled(q, body) ==
    "name" \in DOMAIN body /\ body.name \in DOMAIN event_handlers[q]

\* what q's handler for the event does when called now
HandlerCall(q, body) ==
    CallHandler(event_handlers[q][body.name], body, counter[q])

\* server q answers every request as it did before the step
AnswersAsBefore(q) ==
    /\ srv'[q] = "serving"
    /\ Index(q)' = Index(q)
    /\ \A i \in DOMAIN EventBodies :
         Post(q, "event", EventBodies[i])' = Post(q, "event", EventBodies[i])
    /\ Post(q, "stop", EmptyMap)' = Post(q, "stop", EmptyMap)

\* C6: an event whose handler raises is answered success=false with the
\* traceback as message; send() returns that response, and the server goes
\* on answering every request as before.
C6_HandlerFailureIsAnswered ==
    [][\A p, q \in Procs :
         LET body == last'.body IN
         (/\ SendsEventTo(p, q)
          /\ Handled(q, body) /\ HandlerCall(q, body).raised) =>
            /\ last'.outcome = "ok"
            /\ last'.resp.success = FALSE
            /\ last'.resp.message = Traceback("Exception in handler")
            /\ AnswersAsBefore(q)]_vars

\* an event was answered with the failure of its handler
C6_Witness ==
    /\ last.op = "send" /\ last.invoked = <<"boom">>
    /\ last.resp.success = FALSE
    /\ srv[Server] = "serving"

\* C7: an event without a registered handler is answered success=true with
\* a non-empty message; no handler runs, registry and lifecycle state stay.
C7_UnhandledEventAcknowledged ==
    [][\A p, q \in Procs :
         LET body == last'.body IN
         (/\ SendsEventTo(p, q)
          /\ "name" \in DOMAIN body /\ ~Handled(q, body)) =>
            /\ last'.outcome = "ok"
            /\ last'.resp.success = TRUE
            /\ Len(last'.resp.message) > 0
            /\ last'.invoked = <<>>
            /\ UNCHANGED <<event_handlers, counter, srv, wsgi_running,
                           wsgi_thread, lockfile, pc, hooks>>]_vars

\* an event nobody handles was acknowledged
C7_Witness ==
    /\ last.op = "send" /\ last.route = "event" /\ last.outcome = "ok"
    /\ last.invoked = <<>>
    /\ last.resp.success = TRUE
    /\ event_handlers[Server] # EmptyMap

\* C8: POST /event with a body without "name" is answered success=false with
\* the message 'Event missing required field "name".', and no handler runs.
C8_MissingNameRejected ==
    [][\A p, q \in Procs :
         LET body == last'.body IN
         (/\ SendsEventTo(p, q)
          /\ "name" \notin DOMAIN body) =>
            /\ last'.outcome = "ok"
            /\ last'.resp =
                 [success |-> FALSE,
                  message |-> <<"Event missing required field \"name\".">>]
            /\ last'.invoked = <<>>
            /\ UNCHANGED <<event_handlers, counter>>]_vars

\* a body without "name" was rejected while handlers were registered
C8_Witness ==
    /\ last.op = "send" /\ last.route = "event" /\ last.outcome = "ok"
    /\ last.resp.success = FALSE /\ last.invoked = <<>>
    /\ DOMAIN event_handlers[Server] = EventNames

\* C9: a handler that returns a mapping without raising is invoked once and
\* the response is success=true and holds every key/value of the mapping,
\* also when the mapping is empty or has the key "success".
C9_HandlerReturnMerged ==
    [][\A p, q \in Procs :
         LET body == last'.body IN
         (/\ SendsEventTo(p, q)
          /\ Handled(q, body) /\ ~HandlerCall(q, body).raised) =>
            /\ last'.invoked = <<event_handlers[q][body.name]>>
            /\ last'.resp.success = TRUE
            /\ \A k \in DOMAIN HandlerCall(q, body).ret :
                 last'.resp[k] = HandlerCall(q, body).ret[k]]_vars

\* server q handles "increment" with the counting handler
CountsIncrements(q) ==
    /\ "increment" \in DOMAIN event_handlers[q]
    /\ event_handlers[q]["increment"] = "increment"

\* C10 as stated: send("increment", {"value": 2}) twice from a counter of 0
\* is answered {success: true, value: 2}, then {success: true, value: 4}.
C10_SendIncrementRoute ==
    [][\A p, q \in Procs :
         (/\ SendsTo(p, q) /\ last'.route = "increment"
          /\ Send(p, "increment", [value |-> 2])
          /\ CountsIncrements(q) /\ counter[q] \in {0, 2}) =>
            last'.resp = [success |-> TRUE, value |-> counter[q] + 2]]_vars

\* C10 amended: send("event", {"name": "increment", "value": 2}) that
\* reaches the instance is answered {success: true, value: 2} from a counter
\* of 0, and {success: true, value: 4} from the counter of 2 that it leaves.
C10_SendEventIncrement ==
    [][\A p, q \in Procs :
         (/\ SendsTo(p, q) /\ last'.route = "event"
          /\ Send(p, "event", IncBody)
          /\ CountsIncrements(q) /\ counter[q] \in {0, 2}) =>
            /\ last'.outcome = "ok"
            /\ last'.resp = [success |-> TRUE, value |-> counter[q] + 2]
            /\ counter'[q] = counter[q] + 2]_vars

\* the second send of the scenario was answered with value 4
C10_Witness ==
    /\ last.op = "send" /\ last.route = "event" /\ last.outcome = "ok"
    /\ last.invoked = <<"increment">>
    /\ last.resp = [success |-> TRUE, value |-> 4]
    /\ counter[Server] = 4

\* ------------------------------------------------ claims on GET / and locks
\* C11: GET / on a running instance returns success=true with the name, pid,
\* app_dir and address of the serving instance; a get('/') of another
\* invocation against "demo" on 127.0.0.1:9876 receives success=true,
\* name="demo" and address="http://127.0.0.1:9876".
C11_IndexSnapshot ==
    [][\A p, q \in Procs :
         (/\ srv[q] = "serving" /\ last'.op = "get" /\ last'.proc = p
          /\ Reaches(p, q) /\ Get(p, "/")) =>
            /\ last'.outcome = "ok"
            /\ DOMAIN last'.resp =
                 {"success", "name", "pid", "app_dir", "address"}
            /\ last'.resp.success = TRUE
            /\ last'.resp.name = Name
            /\ last'.resp.pid = PyStr(IntV(OsPid(q)))
            /\ last'.resp.app_dir = AppDir
            /\ last'.resp.address = Url(FixedPort)]_vars

\* C13: start() writes the lock file only once its server is bound and
\* listening: when the record is written, a request to the recorded address
\* is answered by that instance.
C13_LockWrittenAfterListening ==
    [][\A p \in Procs : StartWrite(p) => p \in Answering(address[p])]_vars

\* p does not own a server and its own address, if any, answers nobody
NoLocalSignal(p) ==
    /\ ~wsgi_running[p]
    /\ address[p] = NoneV \/ Answering(address[p]) = {}

\* the lock file is well-formed and names a pid that no OS process has
StaleLock ==
    /\ lockfile.exists
    /\ ReadPidFile(lockfile).ok
    /\ ~OsProcessExists(ReadPidFile(lockfile).pid.v)

\* C14: with a well-formed lock file whose pid no OS process has, and no
\* answer at the object's own address, the liveness check of start() says
\* no and start() goes on to become the server.
C14_StaleLockDoesNotBlock ==
    [][\A p \in Procs :
         (NoLocalSignal(p) /\ StaleLock /\ StartCheck(p)) =>
            pc'[p] = "start2"]_vars

\* the lock file is well-formed, its pid is a live OS process, and nobody
\* answers at its address
DeadAddressLock ==
    /\ lockfile.exists
    /\ ReadPidFile(lockfile).ok
    /\ OsProcessExists(ReadPidFile(lockfile).pid.v)
    /\ Answering(ReadPidFile(lockfile).address) = {}

\* C15: when the recorded pid is alive but nothing answers at the recorded
\* address, the liveness check says no without raising: start() goes on,
\* and stop(), get() and send() raise ProcessDoesNotExist.
C15_DeadAddressIsNotRunning ==
    [][\A p \in Procs :
         /\ (NoLocalSignal(p) /\ DeadAddressLock /\ StartCheck(p)) =>
               pc'[p] = "start2"
         /\ (NoLocalSignal(p) /\ DeadAddressLock /\ pc[p] = "idle"
             /\ ChecksLiveness(p)) =>
               last'.proc = p /\ last'.outcome = "ProcessDoesNotExist"]_vars

\* ------------------------------------------------------- claims on stop()
\* C16: a stop() of the instance that owns the server, whose own stop
\* request met a connection failure because the server had already gone
\* away, returns normally, with wsgi_running false and wsgi_thread None.
C16_StopToleratesGoneServer ==
    [][\A p \in Procs :
         (StopJoin(p) /\ wsgi_thread[p] /\ response[p] = Unbound) =>
            /\ last'.proc = p /\ last'.op = "stop"
            /\ last'.outcome = "ok"
            /\ ~wsgi_running'[p]
            /\ ~wsgi_thread'[p]]_vars

\* C17: wsgi_running is true only while the server thread of the process
\* has not shut down (stopped by a remote POST /stop, or failed to bind).
C17_LocalFlagSound ==
    \A p \in Procs : wsgi_running[p] => srv[p] # "dead"

\* C18: a liveness check that reports false leaves the pid and address of
\* the object as they were.
C18_FalseCheckKeepsIdentity ==
    [][\A p \in Procs :
         (/\ Running(p).res = "false"
          /\ StartCheck(p) \/ ChecksLiveness(p)) =>
            /\ pid'[p] = pid[p]
            /\ address'[p] = address[p]]_vars

\* C20: when a stop() of the instance that owns the server returns, the
\* server thread was joined and has terminated, on_stop ran once and before
\* the stop request, wsgi_running is false and wsgi_thread None; no step of
\* stop() touches the lock file.
C20_StopReturnsAfterJoin ==
    [][\A p \in Procs :
         /\ (StopJoin(p) /\ wsgi_thread[p] /\ last'.outcome = "ok") =>
               /\ last'.proc = p /\ last'.op = "stop"
               /\ last'.fx = <<"on_stop", "request", "join">>
               /\ last'.resp = Post(p, "stop", EmptyMap).resp
               /\ srv'[p] = "none"
               /\ ~wsgi_running'[p]
               /\ ~wsgi_thread'[p]
         /\ (StopCheck(p) \/ StopSend(p) \/ StopJoin(p)) =>
               lockfile' = lockfile]_vars

\* the owner's stop() returned the /stop response and the lock file remains
C20_Witness ==
    /\ last.op = "stop" /\ last.outcome = "ok"
    /\ last.fx = <<"on_stop", "request", "join">>
    /\ ~wsgi_running[last.proc] /\ srv[last.proc] = "none"
    /\ lockfile.exists

\* ------------------------------------- claims on run_forever() and /restart
\* run_forever is handling an interrupt: inside on_signal's stop(), after
\* KeyboardInterrupt was caught, or inside the except branch's stop()
Handling == {"sig", "caught", "kbi"}

\* the step ends p's handling of an interrupt
HandlingEnds(p) ==
    /\ \/ rf[p] \in Handling
       \/ rf[p] = "sleep" /\ Interrupt(p)
    /\ rf'[p] \in {"sleep", "raised", "returned"}

\* C12: once an interrupt arrives during run_forever(), stop() is called and
\* the handling ends with run_forever() returning, the server stopped; it
\* neither raises nor goes back to its loop.
C12_RunForeverReturns ==
    [][\A p \in Procs :
         HandlingEnds(p) =>
            /\ rf'[p] = "returned"
            /\ srv'[p] \notin {"starting", "serving"}]_vars

\* C19: the program image of a server handling POST /restart is replaced
\* only after shutdown was signalled and the success=true response produced.
C19_RestartRespondsBeforeExec ==
    [][\A q \in Procs : RestartExec(q) => rst[q].h = "responded"]_vars

\* ------------------------------------------------- corrupt lock files
\* text that is neither a pid nor an address
Junk == [k |-> "junk", v |-> 0, nl |-> FALSE]

\* lock files that are not a record written by start(): one line, no line
\* at all, and two lines of which the first is not a pid
EmptyFile == FileOf(<<>>)
MalformedFile == FileOf(<<WithNl(Junk), Url(1)>>)

\* the file is what _write_pid_file writes: str(pid), newline, the address
WellFormed(file) ==
    /\ file.exists
    /\ Len(file.lines) = 2
    /\ file.lines[1].k = "str" /\ file.lines[1].nl
    /\ file.lines[2].k = "url" /\ ~file.lines[2].nl

\* the invocations find a corrupt lock file on disk
InitCorrupt ==
    /\ platform \in {"win32", "posix"}
    /\ lockfile \in {CorruptFile, EmptyFile, MalformedFile}
    /\ \E a \in {NoneV, InitAddress(FixedPort)} : address = [p \in Procs |-> a]
    /\ pc = [p \in Procs |-> "idle"]
    /\ pid = [p \in Procs |-> NoneV]
    /\ wsgi_running = [p \in Procs |-> FALSE]
    /\ wsgi_thread = [p \in Procs |-> FALSE]
    /\ srv = [p \in Procs |-> "none"]
    /\ srvPort = [p \in Procs |-> 0]
    /\ hooks = [p \in Procs |-> FALSE]
    /\ event_handlers = [p \in Procs |-> Registry]
    /\ counter = [p \in Procs |-> 0]
    /\ response = [p \in Procs |-> Unbound]
    /\ fx = [p \in Procs |-> <<>>]
    /\ last = NoCall
    /\ calls = 0
    /\ rf = [p \in Procs |-> "none"]
    /\ rst = [p \in Procs |-> NoRestart]

SpecCorrupt == InitCorrupt /\ [][Next]_vars

\* the lock file exists and is not a record written by start()
CorruptLock == lockfile.exists /\ ~WellFormed(lockfile)

\* C21: with a corrupt lock file (malformed, or not exactly two lines) and
\* no answer at the object's own address, the liveness check says no and
\* raises nothing: start() goes on and writes a well-formed record, and
\* stop(), get() and send() raise ProcessDoesNotExist.
C21_CorruptLockIsNotRunning ==
    [][\A p \in Procs :
         /\ (NoLocalSignal(p) /\ CorruptLock /\ StartCheck(p)) =>
               pc'[p] = "start2"
         /\ (NoLocalSignal(p) /\ CorruptLock /\ pc[p] = "idle"
             /\ ChecksLiveness(p)) =>
               last'.proc = p /\ last'.outcome = "ProcessDoesNotExist"
         /\ StartWrite(p) => WellFormed(lockfile')]_vars

====
